---- MODULE Spec2Model ----
(***************************************************************************)
(* Model of the formatting core of stat_boards.py: access() (path          *)
(* resolution over nested structures), tablefy() (tabulation), diff_lists  *)
(* and print_devices.  The program is Python 2: str has no __iter__, map   *)
(* and zip return lists, values of different types compare by type.        *)
(*                                                                         *)
(* Python values are tagged tuples:                                        *)
(*   <<"none">>  <<"int", n>>  <<"bool", b>>  <<"str", chars>>             *)
(*   <<"list", <<v1, ..., vn>>>>                                           *)
(*   <<"dict", << <<k1, v1>>, ..., <<kn, vn>> >>>>  (in iteration order)   *)
(* and a raised exception is <<"err", name>>.  Tuples of the program       *)
(* (re groups) are modelled as lists: the code only reads them.            *)
(***************************************************************************)
EXTENDS Integers, Sequences, FiniteSets, TLC

VARIABLES pc, keystring, struct, expand_lists_to_bool, flatten_lists,
          cols, result, after, l1, l2

vars == <<pc, keystring, struct, expand_lists_to_bool, flatten_lists,
          cols, result, after, l1, l2>>

(* ------------------------------ values --------------------------------- *)

None == <<"none">>
PyInt(n) == <<"int", n>>
PyBool(b) == <<"bool", b>>
PyStr(s) == <<"str", s>>
PyList(s) == <<"list", s>>
PyDict(s) == <<"dict", s>>
Err(e) == <<"err", e>>

IsErr(v) == v[1] = "err"
IsDict(v) == v[1] = "dict"
IsStr(v) == v[1] = "str"

\* HasIter as it would be were a str taken for an iterable
HasIter_str(v) == v[1] \in {"list", "dict", "str"}

\* hasattr(v, '__iter__'): lists and dicts; a Python 2 str has no __iter__
HasIter(v) == v[1] \in {"list", "dict"}

\* len(v) is defined for lists, dicts and strings
HasLen(v) == v[1] \in {"list", "dict", "str"}
PyLen(v) == Len(v[2])

Digits == <<"0", "1", "2", "3", "4", "5", "6", "7", "8", "9">>
Letters == <<"A", "B", "C", "D", "E", "F", "G", "H", "I", "J", "K", "L", "M",
             "N", "O", "P", "Q", "R", "S", "T", "U", "V", "W", "X", "Y", "Z",
             "a", "b", "c", "d", "e", "f", "g", "h", "i", "j", "k", "l", "m",
             "n", "o", "p", "q", "r", "s", "t", "u", "v", "w", "x", "y", "z">>

IsDigitChar(ch) == \E i \in 1..Len(Digits) : Digits[i] = ch
IsAlphaChar(ch) == \E i \in 1..Len(Letters) : Letters[i] = ch
DigitVal(ch) == (CHOOSE i \in 1..Len(Digits) : Digits[i] = ch) - 1

\* the first error of a sequence of results, in evaluation order
HasErr(s) == \E i \in 1..Len(s) : IsErr(s[i])
FirstErr(s) == s[CHOOSE i \in 1..Len(s) :
                   IsErr(s[i]) /\ \A j \in 1..(i-1) : ~IsErr(s[j])]

(* ------------------------- str methods used ---------------------------- *)

\* rstrip left out: the string as it is
rstrip_none(s, ch) == s

RECURSIVE rstrip(_, _)
rstrip(s, ch) ==
    IF s # <<>> /\ s[Len(s)] = ch
    THEN rstrip(SubSeq(s, 1, Len(s) - 1), ch)
    ELSE s

RECURSIVE split(_, _)
split(s, sep) ==
    IF \E i \in 1..Len(s) : s[i] = sep
    THEN LET i == CHOOSE k \in 1..Len(s) :
                      s[k] = sep /\ \A j \in 1..(k-1) : s[j] # sep
         IN  <<SubSeq(s, 1, i - 1)>> \o split(SubSeq(s, i + 1, Len(s)), sep)
    ELSE <<s>>

isdigit(s) == s # <<>> /\ \A i \in 1..Len(s) : IsDigitChar(s[i])

RECURSIVE int(_)
int(s) ==
    IF s = <<>> THEN 0
    ELSE 10 * int(SubSeq(s, 1, Len(s) - 1)) + DigitVal(s[Len(s)])

(* ------------------------------ access --------------------------------- *)

\* keystring.rstrip(':').split(':'), digit segments coerced to int
key_sequence(ks) ==
    LET segs == split(rstrip(ks, ":"), ":")
    IN  [i \in 1..Len(segs) |->
            IF isdigit(segs[i]) THEN PyInt(int(segs[i])) ELSE PyStr(segs[i])]

\* The objects of a structure are named by their location: the positions
\* followed from the root (list index, dict iteration position, str index).
Child(v, i) ==
    CASE v[1] = "list" -> v[2][i]
      [] v[1] = "dict" -> v[2][i][2]
      [] v[1] = "str" -> PyStr(<<v[2][i]>>)

RECURSIVE At(_, _)
At(v, loc) == IF loc = <<>> THEN v ELSE At(Child(v, loc[1]), Tail(loc))

\* key in container, for a dict
KeyIn(k, c) == \E i \in 1..Len(c[2]) : c[2][i][1] = k

\* key < len(container) under Python 2 ordering: an int sorts below any str
PyLessLen(k, c) == k[1] = "int" /\ k[2] < PyLen(c)

\* container[key]: the position of the item, or the exception raised
getitem(c, k) ==
    CASE c[1] = "dict" ->
            IF KeyIn(k, c)
            THEN <<"ok", CHOOSE i \in 1..Len(c[2]) : c[2][i][1] = k>>
            ELSE Err("KeyError")
      [] c[1] \in {"list", "str"} ->
            IF k[1] # "int" THEN Err("TypeError")
            ELSE IF k[2] < Len(c[2]) THEN <<"ok", k[2] + 1>>
            ELSE Err("IndexError")
      [] OTHER -> Err("TypeError")

\* What a call returns: a reference to an object of the structure, a newly
\* built list of such results, an immediate value, or an exception.
Ref(loc) == <<"ref", loc>>
New(s) == <<"new", s>>
Imm(v) == <<"imm", v>>

Collect(s) == IF HasErr(s) THEN FirstErr(s) ELSE New(s)

RECURSIVE use_key(_, _, _)
use_key(key, root, loc) ==
    LET container == At(root, loc) IN
    IF key = <<>> THEN Err("IndexError")
    ELSE IF key[1] = PyStr(<<>>) THEN
        IF IsDict(container) THEN
            IF Len(key) > 1
            THEN Collect([i \in 1..PyLen(container) |->
                             use_key(Tail(key), root, Append(loc, i))])
            ELSE New([i \in 1..PyLen(container) |-> Ref(Append(loc, i))])
        ELSE IF HasIter(container) THEN
            Collect([i \in 1..PyLen(container) |->
                        use_key(Tail(key), root, Append(loc, i))])
        ELSE New(<<>>)
    ELSE IF Len(key) > 1 THEN
        LET g == getitem(container, key[1]) IN
        IF IsErr(g) THEN g ELSE use_key(Tail(key), root, Append(loc, g[2]))
    ELSE
        IF (IsDict(container) /\ KeyIn(key[1], container))
           \/ (HasIter(container) /\ PyLessLen(key[1], container))
        THEN LET g == getitem(container, key[1]) IN
             IF IsErr(g) THEN g ELSE Ref(Append(loc, g[2]))
        ELSE Imm(None)

access(ks, container) == use_key(key_sequence(ks), container, <<>>)

(* ------------------- values behind references -------------------------- *)

\* tablefy assigns to slots of column lists that may be objects of the
\* structure passed in.  w maps a slot (the location of the object that was
\* there on entry) to the value since assigned to it; View is the current
\* value of the object that was at loc on entry.
NoWrites == <<>>

RECURSIVE View(_, _, _)
View(root, w, loc) ==
    LET v == At(root, loc)
        slot(i) == IF Append(loc, i) \in DOMAIN w
                   THEN w[Append(loc, i)]
                   ELSE View(root, w, Append(loc, i))
    IN  CASE v[1] = "list" -> PyList([i \in 1..Len(v[2]) |-> slot(i)])
          [] v[1] = "dict" ->
                PyDict([i \in 1..Len(v[2]) |-> <<v[2][i][1], slot(i)>>])
          [] OTHER -> v

RECURSIVE Deref(_, _, _)
Deref(r, root, w) ==
    CASE r[1] = "ref" -> View(root, w, r[2])
      [] r[1] = "new" -> PyList([i \in 1..Len(r[2]) |-> Deref(r[2][i], root, w)])
      [] r[1] = "imm" -> r[2]
      [] OTHER -> r

\* the value access() returns to its caller, or the exception it raises
access_value(ks, container) == Deref(access(ks, container), container, NoWrites)

(* ------------------------ Python helpers of tablefy -------------------- *)

\* str.strip(): leading and trailing blanks removed
RECURSIVE lstrip(_)
lstrip(s) == IF s # <<>> /\ s[1] = " " THEN lstrip(Tail(s)) ELSE s

strip(s) == rstrip(lstrip(s), " ")

\* iteration (for x in v, zip, extend): list items, dict keys, str characters
CanIterate(v) == v[1] \in {"list", "dict", "str"}
PyIter(v) ==
    CASE v[1] = "list" -> v[2]
      [] v[1] = "dict" -> [i \in 1..Len(v[2]) |-> v[2][i][1]]
      [] v[1] = "str" -> [i \in 1..Len(v[2]) |-> PyStr(<<v[2][i]>>)]

\* a set element must be hashable
IsHashable(v) == v[1] \in {"none", "int", "bool", "str"}

\* character codes, ascending
CharOrder == <<" ", ",">> \o Digits \o <<":">> \o Letters
Ord(ch) == CHOOSE i \in 1..Len(CharOrder) : CharOrder[i] = ch

RECURSIVE StrLess(_, _)
StrLess(a, b) ==
    IF b = <<>> THEN FALSE
    ELSE IF a = <<>> THEN TRUE
    ELSE IF a[1] = b[1] THEN StrLess(Tail(a), Tail(b))
    ELSE Ord(a[1]) < Ord(b[1])

\* Python 2 ordering of hashable scalars: None, then numbers, then strings
TypeRank(v) == CASE v[1] = "none" -> 0
                 [] v[1] \in {"int", "bool"} -> 1
                 [] OTHER -> 2
Num(v) == IF v[1] = "bool" THEN (IF v[2] THEN 1 ELSE 0) ELSE v[2]
PyLess(a, b) ==
    IF TypeRank(a) # TypeRank(b) THEN TypeRank(a) < TypeRank(b)
    ELSE CASE TypeRank(a) = 0 -> FALSE
           [] TypeRank(a) = 1 -> Num(a) < Num(b)
           [] OTHER -> StrLess(a[2], b[2])

\* list(set).sort()
RECURSIVE sorted(_)
sorted(S) ==
    IF S = {} THEN <<>>
    ELSE LET m == CHOOSE x \in S : \A y \in S : ~PyLess(y, x)
         IN  <<m>> \o sorted(S \ {m})

\* a is a substring of b
IsSubstring(a, b) ==
    \E i \in 0..(Len(b) - Len(a)) : SubSeq(b, i + 1, i + Len(a)) = a

\* x in e, for an e that can be iterated (str needs a str on the left)
contains(x, e) ==
    CASE e[1] = "list" -> \E i \in 1..Len(e[2]) : e[2][i] = x
      [] e[1] = "dict" -> KeyIn(x, e)
      [] e[1] = "str" -> IsSubstring(x[2], e[2])

\* re.search(r'([a-zA-Z].*)', h).group(1), then re.sub(r':.*', '', ...);
\* a label without a letter makes re.search return None
HasAlpha(h) == \E i \in 1..Len(h) : IsAlphaChar(h[i])
prettify(h) ==
    LET a == CHOOSE i \in 1..Len(h) :
                 IsAlphaChar(h[i]) /\ \A j \in 1..(i-1) : ~IsAlphaChar(h[j])
        lstripped == SubSeq(h, a, Len(h))
    IN  split(lstripped, ":")[1]

(* ------------------------------ tablefy -------------------------------- *)

\* check_lengths with the assertion off: only len() can raise
check_lengths_off(vals) ==
    IF \E j \in 1..Len(vals) : ~HasLen(vals[j]) THEN Err("TypeError") ELSE None

\* for col in cols: assert len(col)==len(cols[0])
check_lengths(vals) ==
    LET bad(j) == ~HasLen(vals[j]) \/ PyLen(vals[j]) # PyLen(vals[1])
    IN  IF \A j \in 1..Len(vals) : ~bad(j) THEN None
        ELSE LET j == CHOOSE k \in 1..Len(vals) :
                          bad(k) /\ \A m \in 1..(k-1) : ~bad(m)
             IN  IF HasLen(vals[j]) THEN Err("AssertionError")
                 ELSE Err("TypeError")

\* col[i] = map(lambda x: x in col[i], bool_names), for i in range(len(col)).
\* The new lists go into the column itself: a column that is an object of the
\* structure passed in has its slots assigned there.  The loop stops at the
\* first i whose "in" raises (a str entry tested for a value that is no str).
expand_assign(st, j, col, bool_names) ==
    LET entries == PyIter(col)
        n == Len(entries)
        c == st.C[j]
        fails(i) == IsStr(entries[i])
                    /\ \E k \in 1..Len(bool_names) : ~IsStr(bool_names[k])
        stop == IF \E i \in 1..n : fails(i)
                THEN CHOOSE i \in 1..n : fails(i) /\ \A m \in 1..(i-1) : ~fails(m)
                ELSE n + 1
        mapped(i) == PyList([k \in 1..Len(bool_names) |->
                               PyBool(contains(bool_names[k], entries[i]))])
        written == {Append(c[2], i) : i \in 1..(stop - 1)}
    IN  [C |-> IF c[1] = "new"
               THEN [st.C EXCEPT ![j] =
                       New([i \in 1..n |-> IF i < stop THEN Imm(mapped(i))
                                           ELSE c[2][i]])]
               ELSE st.C,
         w |-> IF c[1] = "ref"
               THEN [l \in (DOMAIN st.w) \cup written |->
                       IF l \in written THEN mapped(l[Len(l)]) ELSE st.w[l]]
               ELSE st.w,
         exp |-> st.exp,
         err |-> IF stop <= n THEN Err("TypeError") ELSE None]

\* bool_names = list({ item for entry in col for item in entry }), sorted,
\* and cols_expanded.append([cols.index(col), bool_names])
expand_names(st, j, root, col) ==
    LET entries == PyIter(col)
        n == Len(entries)
        unusable(e) == ~CanIterate(e)
                       \/ \E k \in 1..Len(PyIter(e)) : ~IsHashable(PyIter(e)[k])
        same(k) == Deref(st.C[k], root, st.w) = col
        index == CHOOSE k \in 1..Len(st.C) : same(k) /\ \A m \in 1..(k-1) : ~same(m)
        bool_names == sorted(UNION {{PyIter(entries[i])[k] :
                                       k \in 1..Len(entries[i][2])} : i \in 1..n})
    IN  IF \E i \in 1..n : unusable(entries[i])
        THEN [st EXCEPT !.err = Err("TypeError")]
        ELSE expand_assign([st EXCEPT !.exp = Append(st.exp, <<index, bool_names>>)],
                           j, col, bool_names)

\* if hasattr(col[0], '__iter__'): ...   A dict of the structures has str
\* keys only, so col[0] on a dict column is a KeyError.
expand_first(st, j, root, col) ==
    LET g == getitem(col, PyInt(0))
    IN  IF IsErr(g) THEN [st EXCEPT !.err = g]
        ELSE IF ~HasIter(Child(col, g[2])) THEN st
        ELSE expand_names(st, j, root, col)

\* One pass of "for col in cols" of the expansion.  st.C are the columns
\* (references or new lists), st.w the slots assigned so far, st.exp is
\* cols_expanded, st.err the exception raised, if any.
expand_col(st, j, root) == expand_first(st, j, root, Deref(st.C[j], root, st.w))

RECURSIVE expand_from(_, _, _)
expand_from(st, j, root) ==
    IF j > Len(st.C) \/ st.err # None THEN st
    ELSE expand_from(expand_col(st, j, root), j + 1, root)

\* for i, expansion in cols_expanded: header[i] = expansion
RECURSIVE update_header(_, _)
update_header(header, exp) ==
    IF exp = <<>> THEN header
    ELSE update_header([header EXCEPT ![exp[1][1]] = PyList(exp[1][2])],
                       Tail(exp))

\* for cell in row: extend or append
RECURSIVE flatten_row(_)
flatten_row(row) ==
    IF row = <<>> THEN <<>>
    ELSE (IF HasIter(row[1]) THEN PyIter(row[1]) ELSE <<row[1]>>)
         \o flatten_row(Tail(row))

Min(S) == CHOOSE x \in S : \A y \in S : x <= y

\* rows = [header] + zip(*cols), flattened when asked
make_rows(header, final, flatten) ==
    LET n == Len(final)
        nrows == Min({Len(PyIter(final[i])) : i \in 1..n})
        row(r) == IF r = 1 THEN header
                  ELSE [i \in 1..n |-> PyIter(final[i])[r - 1]]
    IN  PyList([r \in 1..(nrows + 1) |->
                  PyList(IF flatten THEN flatten_row(row(r)) ELSE row(r))])

\* the header with its expansions, prettified, and the rows
tablefy_table(header, final, flatten) ==
    IF \E i \in 1..Len(header) : IsStr(header[i]) /\ ~HasAlpha(header[i][2])
    THEN Err("AttributeError")
    ELSE make_rows([i \in 1..Len(header) |->
                      IF IsStr(header[i]) THEN PyStr(prettify(header[i][2]))
                      ELSE header[i]],
                   final, flatten)

\* after the expansion: what the call leaves
tablefy_end(keystrings, vals, st, root, flatten) ==
    [result |->
        IF st.err # None THEN st.err
        ELSE tablefy_table(
                 update_header([i \in 1..Len(keystrings) |-> PyStr(keystrings[i])],
                               st.exp),
                 [i \in 1..Len(st.C) |-> Deref(st.C[i], root, st.w)],
                 flatten),
     cols |-> PyList(vals),
     after |-> View(root, st.w, <<>>)]

\* the length assertion, then the expansion when asked
tablefy_expand(keystrings, resolved, vals, root, expand, flatten) ==
    tablefy_end(keystrings, vals,
                IF expand
                THEN expand_from([C |-> resolved, w |-> NoWrites, exp |-> <<>>,
                                  err |-> check_lengths(vals)], 1, root)
                ELSE [C |-> resolved, w |-> NoWrites, exp |-> <<>>,
                      err |-> check_lengths(vals)],
                root, flatten)

\* cols = [ access(keystring_, struct) for keystring_ in keystrings ]
tablefy_cols(keystrings, resolved, root, expand, flatten) ==
    IF HasErr(resolved)
    THEN [result |-> FirstErr(resolved), cols |-> FirstErr(resolved),
          after |-> root]
    ELSE tablefy_expand(keystrings, resolved,
                        [i \in 1..Len(resolved) |-> Deref(resolved[i], root, NoWrites)],
                        root, expand, flatten)

\* keystrings = [expr.strip() for expr in keystring.split(',')]
keystrings_of(ks) ==
    [i \in 1..Len(split(ks, ",")) |-> strip(split(ks, ",")[i])]

tablefy_keys(keystrings, root, expand, flatten) ==
    tablefy_cols(keystrings,
                 [i \in 1..Len(keystrings) |-> access(keystrings[i], root)],
                 root, expand, flatten)

\* What a call of tablefy leaves: result (the rows, or the exception), cols
\* (the columns as access resolved them) and after (the structure passed
\* in, as it is when the call ends).
tablefy_run(ks, root, expand, flatten) ==
    tablefy_keys(keystrings_of(ks), root, expand, flatten)

tablefy(ks, root, expand, flatten) == tablefy_run(ks, root, expand, flatten).result

(* ------------------------------- main ---------------------------------- *)

\* the items of the longer list that the other list lacks
diff_lists(a, b) ==
    LET has(l, x) == \E i \in 1..Len(l) : l[i] = x
    IN  IF Len(a) > Len(b)
        THEN SelectSeq(a, LAMBDA x : ~has(b, x))
        ELSE SelectSeq(b, LAMBDA x : ~has(a, x))

TABLE_FORMAT ==
    <<":", "i", "d", "V", "e", "n", "d", "o", "r", ":", "0", ",", " ",
    ":", "i", "d", "P", "r", "o", "d", "u", "c", "t", ":", "0", ",", " ",
    ":", "i", "d", "V", "e", "n", "d", "o", "r", ":", "1", ",", " ", ":",
    "i", "d", "P", "r", "o", "d", "u", "c", "t", ":", "1", ",", " ", ":",
    "s", "e", "r", "i", "a", "l", ":", "1", ",", " ", ":", "c", "l", "a",
    "s", "s", "e", "s", ":", ":", "1">>

\* print_devices(devices): the table it prints, or the exception
print_devices(devices) == tablefy_run(TABLE_FORMAT, devices, TRUE, TRUE)

(* ------------------------------ inputs --------------------------------- *)

MaxPathLen == 4
MaxLen == 2
MaxExprs == 2

SeqsUpTo(S, n) == UNION {[1..k -> S] : k \in 0..n}

\* path strings of access
PathChars == {":", "c", "0"}
Paths == SeqsUpTo(PathChars, MaxPathLen)

sA == PyStr(<<"A">>)
sB == PyStr(<<"B">>)
kc == PyStr(<<"c">>)
ks_ == PyStr(<<"s">>)

\* elements: scalars, a list of lists, records with and without the fields
\* s (a scalar) and c (a list)
Items ==
    { PyInt(7), sA,
      PyList(<<PyList(<<sA, sB>>), PyList(<<sB>>)>>),
      PyDict(<< <<ks_, PyInt(7)>>, <<kc, PyList(<<sA, sB>>)>> >>),
      PyDict(<< <<kc, PyList(<<sB>>)>> >>),
      PyDict(<< <<ks_, PyInt(7)>> >>) }

Containers ==
    Items \cup {PyList(q) : q \in SeqsUpTo(Items, MaxLen)}
          \cup {PyDict(<< <<kc, x>> >>) : x \in Items}

\* expressions of tablefy, joined with ", " into its keystring
Exprs == { <<":", "s">>, <<":", "c">>, <<":", "c", ":", "0">>, <<"0">> }

RECURSIVE Join(_)
Join(q) == IF Len(q) = 1 THEN q[1]
           ELSE q[1] \o <<",", " ">> \o Join(Tail(q))

Keystrings == {Join(q) : q \in SeqsUpTo(Exprs, MaxExprs) \ {<<>>}}

\* USB devices as get_dev_info describes them
Dev1 == PyDict(<<
    <<PyStr(<<"i","d","V","e","n","d","o","r">>),
      PyList(<<PyStr(<<"0","x","1">>), PyStr(<<"N","X","P">>)>>)>>,
    <<PyStr(<<"i","d","P","r","o","d","u","c","t">>),
      PyList(<<PyStr(<<"0","x","2">>), PyStr(<<"L","P","C">>)>>)>>,
    <<PyStr(<<"c","l","a","s","s","e","s">>),
      PyList(<<PyList(<<PyStr(<<"8">>), PyStr(<<"M","S","C">>)>>),
               PyList(<<PyStr(<<"3">>), PyStr(<<"H","I","D">>)>>)>>)>>,
    <<PyStr(<<"s","e","r","i","a","l">>),
      PyList(<<PyStr(<<"3">>), PyStr(<<"A","1">>)>>)>> >>)
Dev2 == PyDict(<<
    <<PyStr(<<"i","d","V","e","n","d","o","r">>),
      PyList(<<PyStr(<<"0","x","3">>), PyStr(<<"S","T">>)>>)>>,
    <<PyStr(<<"i","d","P","r","o","d","u","c","t">>),
      PyList(<<PyStr(<<"0","x","4">>), PyStr(<<"F","4">>)>>)>>,
    <<PyStr(<<"c","l","a","s","s","e","s">>),
      PyList(<<PyList(<<PyStr(<<"3">>), PyStr(<<"H","I","D">>)>>)>>)>>,
    <<PyStr(<<"s","e","r","i","a","l">>),
      PyList(<<PyStr(<<"3">>), PyStr(<<"B","2">>)>>)>> >>)

DeviceLists == SeqsUpTo({Dev1, Dev2}, MaxLen)

(* --------------------------- state machine ----------------------------- *)

Init ==
    /\ pc = "idle"
    /\ keystring = <<>>
    /\ struct = None
    /\ expand_lists_to_bool = FALSE
    /\ flatten_lists = FALSE
    /\ cols = None
    /\ result = None
    /\ after = None
    /\ l1 = <<>>
    /\ l2 = <<>>

\* access(keystring, container)
Access ==
    /\ pc = "idle"
    /\ \E p \in Paths, c \in Containers :
        /\ keystring' = p
        /\ struct' = c
        /\ result' = access_value(p, c)
        /\ after' = c
    /\ pc' = "access"
    /\ UNCHANGED <<expand_lists_to_bool, flatten_lists, cols, l1, l2>>

\* tablefy(keystring, struct, expand_lists_to_bool, flatten_lists)
Tablefy ==
    /\ pc = "idle"
    /\ \E k \in Keystrings, c \in Containers, e \in BOOLEAN, f \in BOOLEAN :
        \E r \in {tablefy_run(k, c, e, f)} :
        /\ keystring' = k
        /\ struct' = c
        /\ expand_lists_to_bool' = e
        /\ flatten_lists' = f
        /\ cols' = r.cols
        /\ result' = r.result
        /\ after' = r.after
    /\ pc' = "tablefy"
    /\ UNCHANGED <<l1, l2>>

\* devices = diff_lists(old_devices, get_usb_devices()); print_devices(devices)
Main ==
    /\ pc = "idle"
    /\ \E old \in DeviceLists, new \in DeviceLists :
        \E devices \in {PyList(diff_lists(old, new))} :
        \E r \in {print_devices(devices)} :
        /\ l1' = old
        /\ l2' = new
        /\ keystring' = TABLE_FORMAT
        /\ struct' = devices
        /\ expand_lists_to_bool' = TRUE
        /\ flatten_lists' = TRUE
        /\ cols' = r.cols
        /\ result' = r.result
        /\ after' = r.after
    /\ pc' = "main"

\* the call is over; the next one starts from nothing
Return ==
    /\ pc # "idle"
    /\ pc' = "idle"
    /\ keystring' = <<>>
    /\ struct' = None
    /\ expand_lists_to_bool' = FALSE
    /\ flatten_lists' = FALSE
    /\ cols' = None
    /\ result' = None
    /\ after' = None
    /\ l1' = <<>>
    /\ l2' = <<>>

Next == Access \/ Tablefy \/ Main \/ Return

Spec == Init /\ [][Next]_vars

(* ----------------------------- properties ------------------------------ *)

IsScalar(v) == v[1] \in {"none", "int", "bool", "str"}
IsSeq(v) == v[1] = "list"
Wildcard == PyStr(<<>>)
IsRecordSeq(v) == IsSeq(v) /\ \A i \in 1..Len(v[2]) : IsDict(v[2][i])
AllWildcardLeading(ks) ==
    \A i \in 1..Len(keystrings_of(ks)) :
        key_sequence(keystrings_of(ks)[i])[1] = Wildcard
\* every expression holds a letter, so that it has a label
AllLabelled(ks) ==
    \A i \in 1..Len(keystrings_of(ks)) : HasAlpha(keystrings_of(ks)[i])
InTablefy == pc \in {"tablefy", "main"}

\* C1: with flatten_lists, tablefy over n records and wildcard-leading
\* expressions returns a header row and exactly n data rows, all rows with the
\* same number of cells, for either value of expand_lists_to_bool.  Stated
\* for n >= 1 and expressions that have a label and resolve to columns.
C1_Rectangular ==
    (InTablefy /\ flatten_lists /\ IsRecordSeq(struct)
       /\ Len(struct[2]) >= 1 /\ IsSeq(cols)
       /\ AllWildcardLeading(keystring) /\ AllLabelled(keystring))
    => /\ ~IsErr(result)
       /\ Len(result[2]) = Len(struct[2]) + 1
       /\ \A r \in 1..Len(result[2]) :
             Len(result[2][r][2]) = Len(result[2][1][2])

\* C2: a wildcard segment followed by a key/index segment, on a sequence of
\* n elements, gives a list of n entries, entry i being the remaining segment
\* resolved against element i (None where the field is absent), in order.
\* Stated for the paths of a wildcard and one key or index, where no lookup
\* before the last segment can fail.
C2_WildcardRows ==
    (pc = "access" /\ IsSeq(struct)
       /\ Len(key_sequence(keystring)) = 2
       /\ key_sequence(keystring)[1] = Wildcard
       /\ key_sequence(keystring)[2] # Wildcard)
    => /\ IsSeq(result)
       /\ Len(result[2]) = Len(struct[2])
       /\ \A i \in 1..Len(struct[2]) :
             LET k == key_sequence(keystring)[2]
                 e == struct[2][i]
             IN  result[2][i] =
                    IF (IsDict(e) /\ KeyIn(k, e))
                       \/ (IsSeq(e) /\ k[1] = "int" /\ k[2] < Len(e[2]))
                    THEN Child(e, getitem(e, k)[2])
                    ELSE None

\* C3: a single key or index on a container gives the indexed value when the
\* container is a mapping holding the key or a sequence longer than the
\* index, and None, without an error, in every other case.
C3_AbsentIsNone ==
    (pc = "access" /\ Len(key_sequence(keystring)) = 1
       /\ key_sequence(keystring)[1] # Wildcard)
    => LET k == key_sequence(keystring)[1] IN
       IF (IsDict(struct) /\ KeyIn(k, struct))
          \/ (IsSeq(struct) /\ k[1] = "int" /\ k[2] < Len(struct[2]))
       THEN result = Child(struct, getitem(struct, k)[2])
       ELSE result = None

DistinctValues(col) ==
    sorted(UNION {{PyIter(col[2][i])[k] : k \in 1..Len(col[2][i][2])} :
                  i \in 1..Len(col[2])})

\* C5: with expand_lists_to_bool, every column whose first entry is a
\* collection becomes the booleans "v is in record r's sub-list", one per
\* distinct value v of the column in ascending order, and the header entry at
\* the column's position becomes that list of values.
\* Stated for expressions that have a label and resolve to columns, and
\* without flattening.
C5_MultiHot ==
    (pc = "tablefy" /\ expand_lists_to_bool /\ ~flatten_lists
       /\ IsRecordSeq(struct) /\ Len(struct[2]) >= 1 /\ IsSeq(cols)
       /\ AllWildcardLeading(keystring) /\ AllLabelled(keystring))
    => /\ ~IsErr(result)
       /\ \A j \in 1..Len(cols[2]) :
             HasIter(cols[2][j][2][1]) =>
                /\ result[2][1][2][j] = PyList(DistinctValues(cols[2][j]))
                /\ \A r \in 1..Len(struct[2]) :
                      result[2][r + 1][2][j] =
                         PyList([k \in 1..Len(DistinctValues(cols[2][j])) |->
                                   PyBool(contains(DistinctValues(cols[2][j])[k],
                                                   cols[2][j][2][r]))])

ColumnsResolved == InTablefy /\ IsSeq(cols)
AllSized == \A j \in 1..Len(cols[2]) : HasLen(cols[2][j])
SameLength ==
    AllSized /\ \A j \in 1..Len(cols[2]) : PyLen(cols[2][j]) = PyLen(cols[2][1])

\* C6: when the columns resolved for a call are not all of the same length
\* the call fails before any row is assembled, with an assertion error when
\* every column has a length; no table is returned and nothing was assigned.
C6_Misaligned ==
    (ColumnsResolved /\ ~SameLength)
    => /\ IsErr(result)
       /\ AllSized => result = Err("AssertionError")
       /\ after = struct

C6_Witness ==
    /\ ColumnsResolved
    /\ AllSized
    /\ ~SameLength
    /\ expand_lists_to_bool
    /\ Len(cols[2]) = 2

NumColons(s) == Cardinality({i \in 1..Len(s) : s[i] = ":"})

\* C7: access(p + ':', c) has the outcome of access(p, c); the trailing
\* delimiters add no segment, and every other delimiter separates two
\* segments, an empty one being a wildcard.
C7_TrailingDelimiter ==
    pc = "access"
    => /\ access_value(Append(keystring, ":"), struct) = result
       /\ key_sequence(Append(keystring, ":")) = key_sequence(keystring)
       /\ Len(key_sequence(keystring))
             = NumColons(rstrip(keystring, ":")) + 1
       /\ \A i \in 1..(Len(keystring) - 2) :
             (keystring[i] = ":" /\ keystring[i + 1] = ":"
                /\ \E m \in (i + 2)..Len(keystring) : keystring[m] # ":")
             => key_sequence(keystring)
                   [NumColons(SubSeq(keystring, 1, i)) + 1] = Wildcard

C7_Witness ==
    /\ pc = "access"
    /\ Len(keystring) = 4
    /\ keystring[1] # ":" /\ keystring[2] = ":" /\ keystring[3] = ":"
    /\ keystring[4] # ":"
    /\ IsSeq(result)
    /\ Len(result[2]) = 2

\* C8: a path that is a lone wildcard gives the elements of the container as
\* they are: the values of a mapping, the elements of a sequence in order.
C8_WildcardLast ==
    (pc = "access" /\ key_sequence(keystring) = <<Wildcard>>
       /\ HasIter(struct))
    => result = PyList([i \in 1..PyLen(struct) |-> Child(struct, i)])

\* C9: the structure passed to tablefy is, after the call, equal to what it
\* was before the call.
C9_Pure == pc = "tablefy" => after = struct

\* C10: for an empty record sequence and wildcard-leading expressions,
\* tablefy returns the header row alone, for every flag combination.  Stated
\* for expressions that have a label.
C10_EmptyRecords ==
    (InTablefy /\ struct = PyList(<<>>)
       /\ AllWildcardLeading(keystring) /\ AllLabelled(keystring))
    => /\ ~IsErr(result)
       /\ Len(result[2]) = 1

====
